---------------------------- MODULE Spec2Model ----------------------------
(***************************************************************************)
(* markdown-to-confluence: the article sync orchestrator                   *)
(* (MarkdownToConfluence in markdown-to-confluence.py) over the document   *)
(* model of record.py.                                                     *)
(*                                                                         *)
(* The recursion _sync_article -> _ensure_exists -> _get_placement ->      *)
(* _sync_article(parent) is modelled by an explicit call stack; one action *)
(* is one step of the code between two external calls (parse, exists,      *)
(* create, update).  An exception that no handler catches unwinds the      *)
(* whole stack and ends the pass ("aborted").                              *)
(*                                                                         *)
(* Paths are sequences of characters, so that os.path.dirname and          *)
(* Article.id_label are computed as the code computes them.                *)
(*                                                                         *)
(* The orchestrator reads Article.content_path and Article.space and calls *)
(* the remote client as exists/create/update(id_label=...).  The remote    *)
(* client is an external collaborator: it is modelled as a page store      *)
(* whose calls either return or raise.                                     *)
(***************************************************************************)
EXTENDS Integers, Sequences, FiniteSets, TLC

VARIABLES
    articles,    \* self.articles: the working list of Article records
    files,       \* front matter of each discovered document's content file
    aux,         \* per article: this pass's call counts, the adopted page
    pages,       \* the remote store: the pages Confluence holds
    stack,       \* call stack of _sync_article frames, innermost last
    idx,         \* position of the iterator of `for article in self.articles`
    status,      \* "running" | "done" (sync returned) | "aborted" (it raised)
    err,         \* what aborted the pass
    pass,        \* number of the sync() call on this orchestrator object
    run,         \* number of the process run (fresh Article objects each run)
    failed,      \* an external call has raised in this process
    discovered,  \* the list main() discovered (the same in every run)
    authors,     \* authors each document's front matter declares
    call,        \* a call of main(), of a method of the Confluence client or
                 \* of a function of record.py or convert.py, taken on its own
    prev         \* confluence_id adopted by each path in the previous run

vars == <<articles, files, aux, pages, stack, idx, status, err, pass, run,
          failed, discovered, authors, call, prev>>

----------------------------------------------------------------------------
(* Bounds *)

MaxDocs == 2

MaxPasses == 2

MaxRuns == 2

MaxDepth == 4

MaxLen == 3

MaxLines == 4

MaxAuthors == 2

MaxTags == 2

MaxAttachments == 2

MaxVersion == 2

MaxResults == 2

----------------------------------------------------------------------------
(* record.py *)

TO_BE_SYNCED == "to_be_synced"

CREATED == "created"

SKIPPED == "skipped"

SYNCED == "synced"

ArticleState == {TO_BE_SYNCED, CREATED, SKIPPED, SYNCED}

INVALID_CHARS == {" ", "!", "#", "&", "(", ")", "*", ",", ".", ":", ";",
                  "<", ">", "?", "@", "[", "]", "^"}

None == "None"

NoneId == 0

\* str.rfind('/') + 1: the length of the prefix ending at the last slash
RFindSlash(p) ==
    LET S == {i \in 1..Len(p) : p[i] = "/"}
    IN  IF S = {} THEN 0 ELSE CHOOSE i \in S : \A j \in S : j <= i

\* str.rstrip('/')
RECURSIVE RStripSlash(_)
RStripSlash(p) ==
    IF p # <<>> /\ p[Len(p)] = "/"
    THEN RStripSlash(SubSeq(p, 1, Len(p) - 1))
    ELSE p

\* posixpath.dirname
Dirname(p) ==
    LET head == SubSeq(p, 1, RFindSlash(p))
    IN  IF head # <<>> /\ (\E i \in 1..Len(head) : head[i] # "/")
        THEN RStripSlash(head)
        ELSE head

\* Article.parent
Parent(a) == Dirname(a.relative_path)

\* Article.id_label
id_label(a) ==
    <<"a", "i", "d", "_">> \o
    [i \in 1..Len(a.relative_path) |->
        IF a.relative_path[i] \in INVALID_CHARS THEN "_"
        ELSE a.relative_path[i]]

\* Article(...): a fresh document.  content is "content_path is set":
\* main() passes content_path, _get_placement does not, and _sync_article
\* reads it and space as attributes that are None until they are assigned.
\* absolute_path only names the page title and is left out.
Article(rel, content, isdir) ==
    [relative_path |-> rel,
     content       |-> content,
     is_directory  |-> isdir,
     state         |-> TO_BE_SYNCED,
     space         |-> None,
     ancestor_id   |-> NoneId,
     confluence_id |-> NoneId,
     page_version  |-> NoneId]

----------------------------------------------------------------------------
(* Inputs *)

\* relative paths main() can produce: files and README directories below a
\* scanned directory, and the absolute path of a file given as an argument
Universe ==
    { <<"d">>,
      <<"d", "/", "a">>,
      <<"d", "/", "b">>,
      <<"d", "/", "e", "/", "a">>,
      <<"/", "a">> }

\* README.md of a directory is discovered as a directory article
IsReadme(p) == p = <<"d">>

\* main(): every discovered article has a content_path
Discover(p) == Article(p, TRUE, IsReadme(p))

DefaultSpace == "S"

DefaultAncestor == 100

OverrideSpace == "T"

OverrideAncestor == 200

\* what ArticleToSync reads of the front matter: wiki.share, wiki.space,
\* wiki.ancestor_id
FrontMatters ==
    { [read |-> TRUE, share |-> FALSE, space |-> None, ancestor_id |-> NoneId] }
    \cup
    [read : {TRUE}, share : {TRUE}, space : {None, OverrideSpace},
     ancestor_id : {NoneId, OverrideAncestor}]

Unread == [read |-> FALSE, share |-> FALSE, space |-> None, ancestor_id |-> NoneId]

Range(s) == {s[i] : i \in DOMAIN s}

\* d/a and d/b are two files of one directory, alike but for the name: of
\* the lists that differ only by swapping them, the one where d/a comes
\* first stands for both
SiblingsInOrder(s) ==
    \A j \in DOMAIN s :
        s[j] = <<"d", "/", "b">> =>
            \E i \in 1..(j - 1) : s[i] = <<"d", "/", "a">>

DiscoveredLists ==
    UNION { {s \in [1..n -> Universe] :
                /\ \A i, j \in 1..n : i # j => s[i] # s[j]
                /\ SiblingsInOrder(s)}
            : n \in 1..MaxDocs }

NoAux == [nExists |-> 0, nCreate |-> 0, nUpdate |-> 0, lookup |-> "none",
          to_share |-> "unknown", adoptId |-> NoneId, adoptVersion |-> NoneId,
          nAuthor |-> 0, parsed |-> "no", calls |-> <<>>, updated |-> FALSE]

\* a page of the remote store
Page(id, label, space, ancestor, version) ==
    [id |-> id, label |-> label, space |-> space, ancestor |-> ancestor,
     version |-> version]

\* the remote store before the run: empty, or holding the page an earlier
\* run made for the directory d below the run-level ancestor
InitialStores ==
    { <<>>,
      <<Page(1, id_label(Discover(<<"d">>)), DefaultSpace, DefaultAncestor, 2)>> }

\* no call is looked at on its own
NoCall == [fn |-> "none"]

\* lists of authors a front matter may declare
AuthorLists == { <<>>, <<"u">>, <<"u", "v">> }

\* main() has discovered the documents and built the orchestrator
Discovered ==
    /\ discovered \in DiscoveredLists
    /\ articles = [i \in DOMAIN discovered |-> Discover(discovered[i])]
    /\ files = [p \in Range(discovered) |-> Unread]
    /\ aux = [i \in DOMAIN discovered |-> NoAux]
    /\ pages \in InitialStores
    /\ stack = <<>>
    /\ idx = 1
    /\ status = "running"
    /\ err = "none"
    /\ pass = 1
    /\ run = 1
    /\ failed = FALSE
    /\ prev = [p \in {} |-> NoneId]
    /\ call = NoCall

\* the documents declare no authors
Init ==
    /\ Discovered
    /\ authors = [p \in Range(discovered) |-> <<>>]

\* the documents declare any of the author lists
InitAuthors ==
    /\ Discovered
    /\ authors \in [Range(discovered) -> AuthorLists]

----------------------------------------------------------------------------
(* The remote client (Confluence), as the orchestrator uses it *)

PageIds == {pages[k].id : k \in DOMAIN pages}

\* the chain of ancestors of a page id, up to the first id the store
\* does not hold
RECURSIVE AncestorsOf(_, _)
AncestorsOf(id, fuel) ==
    IF fuel = 0 \/ id \notin PageIds THEN {}
    ELSE LET pg == pages[CHOOSE k \in DOMAIN pages : pages[k].id = id]
         IN  {pg.ancestor} \cup AncestorsOf(pg.ancestor, fuel - 1)

\* exists(id_label, ancestor_id, space): the indexes of the pages found by
\* the search label = .. and ancestor = .. and space = ..
Matches(label, space, ancestor) ==
    {k \in DOMAIN pages :
        /\ pages[k].label = label
        /\ pages[k].space = space
        /\ ancestor \in AncestorsOf(pages[k].id, Len(pages))}

\* the first result of the search
FirstMatch(label, space, ancestor) ==
    LET M == Matches(label, space, ancestor)
    IN  CHOOSE k \in M : \A j \in M : k <= j

\* create(id_label, space, title, ancestor_id): a new page, version 1
NewPage(label, space, ancestor) ==
    Page(Len(pages) + 1, label, space, ancestor, 1)

\* update(confluence_id, ..., page_version): the page gets the next version
Updated(id, version) ==
    [k \in DOMAIN pages |->
        IF pages[k].id = id THEN [pages[k] EXCEPT !.version = version + 1]
        ELSE pages[k]]

----------------------------------------------------------------------------
(* MarkdownToConfluence *)

Frame(i, pc) == [art |-> i, pc |-> pc, space |-> None, ancestor_id |-> NoneId]

Top == stack[Len(stack)]

Cur == articles[Top.art]

Pop == SubSeq(stack, 1, Len(stack) - 1)

Goto(pc) == [stack EXCEPT ![Len(stack)].pc = pc]

At(pc) == status = "running" /\ stack # <<>> /\ Top.pc = pc

\* as Raise, with a handler in _sync_article that swallows the exception
RaiseCaught(why) ==
    /\ stack' = Pop
    /\ status' = status
    /\ err' = err
    /\ failed' = TRUE

\* an exception nobody catches: every frame is unwound and sync() raises
Raise(why) ==
    /\ stack' = <<>>
    /\ status' = "aborted"
    /\ err' = why
    /\ failed' = TRUE

\* as WantsContentSync, without the test of the state
WantsContentSyncAny(a) == a.content

\* line 271: the branch of a document with content
WantsContentSync(a) == a.content /\ a.state \in {TO_BE_SYNCED, CREATED}

\* as WantsDirectorySync, with CREATED let through as line 271 does
WantsDirectorySyncCreated(a) ==
    ~a.content /\ a.is_directory /\ a.state \in {TO_BE_SYNCED, CREATED}

\* line 313: the branch of a content-less directory
WantsDirectorySync(a) ==
    ~a.content /\ a.is_directory /\ a.state \in {TO_BE_SYNCED}

\* ArticleToSync.to_share
to_share(fm) == fm.share

\* ArticleToSync.self_placement: of the parsed front matter, or of the {}
\* a content-less directory is given
self_placement(a) ==
    IF a.content
    THEN [space |-> files[a.relative_path].space,
          ancestor_id |-> files[a.relative_path].ancestor_id]
    ELSE [space |-> None, ancestor_id |-> NoneId]

\* as HasFullOverride, without the early return of lines 178-179
HasFullOverrideNever(sp) == FALSE

\* line 178
HasFullOverride(sp) == sp.space # None /\ sp.ancestor_id # NoneId

\* as Merge, with the inherited value winning over the declared one
MergeParentFirst(sp, space, ancestor) ==
    [space |-> IF space # None THEN space ELSE sp.space,
     ancestor_id |-> IF ancestor # NoneId THEN ancestor ELSE sp.ancestor_id]

\* `space or parentSpace`, `ancestor_id or parentId`
Merge(sp, space, ancestor) ==
    [space |-> IF sp.space # None THEN sp.space ELSE space,
     ancestor_id |-> IF sp.ancestor_id # NoneId THEN sp.ancestor_id ELSE ancestor]

\* as ParentCandidates, comparing the content flag instead of the path:
\* a lookup that never finds the directory
ParentCandidatesNever(path) ==
    {j \in DOMAIN articles : articles[j].relative_path = path /\ FALSE}

\* line 185: the articles whose relative_path is the parent path
ParentCandidates(path) ==
    {j \in DOMAIN articles : articles[j].relative_path = path}

\* lines 186-195: the index of the parent, which is appended when missing
ParentIndex(path) ==
    LET C == ParentCandidates(path)
    IN  IF C # {} THEN CHOOSE j \in C : \A k \in C : j <= k
        ELSE Len(articles) + 1

\* as WithParent, appending a new directory even when the lookup found one
WithParentAlways(path) == Append(articles, Article(path, FALSE, TRUE))

\* lines 189-195: self.articles after the lookup
WithParent(path) ==
    IF ParentCandidates(path) # {} THEN articles
    ELSE Append(articles, Article(path, FALSE, TRUE))

\* as Adopt, without line 264
AdoptWithoutVersion(a, page, space, ancestor) ==
    [a EXCEPT !.ancestor_id = ancestor,
              !.space = space,
              !.confluence_id = page.id,
              !.state = CREATED]

\* as Adopt, with the ensured document marked SYNCED at once
AdoptAsSynced(a, page, space, ancestor) ==
    [a EXCEPT !.ancestor_id = ancestor,
              !.space = space,
              !.confluence_id = page.id,
              !.page_version = page.version,
              !.state = SYNCED]

\* as Adopt, without line 265
AdoptWithoutState(a, page, space, ancestor) ==
    [a EXCEPT !.ancestor_id = ancestor,
              !.space = space,
              !.confluence_id = page.id,
              !.page_version = page.version]

\* lines 261-265
Adopt(a, page, space, ancestor) ==
    [a EXCEPT !.ancestor_id = ancestor,
              !.space = space,
              !.confluence_id = page.id,
              !.page_version = page.version,
              !.state = CREATED]

\* as LoopHasNext, iterating over a copy of the discovered list
LoopOverSnapshot(i) == i <= Len(discovered)

\* line 204: the list iterator has a next element
LoopHasNext(i) == i <= Len(articles)

\* sync(), line 204-206: the loop takes the next article
SyncNext ==
    /\ status = "running" /\ stack = <<>>
    /\ LoopHasNext(idx)
    /\ stack' = <<Frame(idx, "enter")>>
    /\ idx' = idx + 1
    /\ UNCHANGED <<articles, files, aux, pages, status, err, pass, run,
                   failed, discovered, authors, call, prev>>

\* sync(): the iterator is exhausted and sync returns
SyncReturn ==
    /\ status = "running" /\ stack = <<>>
    /\ ~LoopHasNext(idx)
    /\ status' = "done"
    /\ UNCHANGED <<articles, files, aux, pages, stack, idx, err, pass, run,
                   failed, discovered, authors, call, prev>>

\* as AfterParseError, the state left as it was
AfterParseErrorKeep(a) == a

\* lines 274-279: the handler of a failed _parse
AfterParseError(a) == [a EXCEPT !.state = SKIPPED]

\* as AfterOptOut, the state left as it was
AfterOptOutKeep(a) == a

\* lines 281-285: the document does not ask to be shared
AfterOptOut(a) == [a EXCEPT !.state = SKIPPED]

\* lines 272-279: _parse raises: parse itself, or get_author for one of the
\* declared authors in _set_author_keys, after k calls of get_author
ParseRaises ==
    /\ At("enter") /\ WantsContentSync(Cur)
    /\ failed' = TRUE
    /\ \E k \in 0..Len(authors[Cur.relative_path]) :
          aux' = [aux EXCEPT ![Top.art].nAuthor = k,
                             ![Top.art].parsed = "raised"]
    /\ articles' = [articles EXCEPT ![Top.art] = AfterParseError(Cur)]
    /\ stack' = Pop
    /\ UNCHANGED <<files, pages, idx, status, err, pass, run,
                   discovered, authors, call, prev>>

\* lines 273, 281-290: _parse returns the front matter of the file, having
\* called get_author once for each declared author
ParseReturns ==
    /\ At("enter") /\ WantsContentSync(Cur)
    /\ \E fm \in FrontMatters :
          /\ files[Cur.relative_path].read => fm = files[Cur.relative_path]
          /\ files' = [files EXCEPT ![Cur.relative_path] = fm]
          /\ aux' = [aux EXCEPT
                        ![Top.art].to_share =
                            IF to_share(fm) THEN "yes" ELSE "no",
                        ![Top.art].nAuthor = Len(authors[Cur.relative_path]),
                        ![Top.art].parsed = "ok"]
          /\ IF ~to_share(fm)
             THEN /\ articles' = [articles EXCEPT ![Top.art] = AfterOptOut(Cur)]
                  /\ stack' = Pop
             ELSE /\ articles' = articles
                  /\ stack' = Goto(IF Cur.state = TO_BE_SYNCED
                                   THEN "place" ELSE "update")
    /\ UNCHANGED <<pages, idx, status, err, pass, run, failed, discovered, authors, call,
                   prev>>

\* lines 313-319: a content-less directory goes to _ensure_exists
DirectoryEnter ==
    /\ At("enter") /\ ~WantsContentSync(Cur) /\ WantsDirectorySync(Cur)
    /\ stack' = Goto("place")
    /\ UNCHANGED <<articles, files, aux, pages, idx, status, err, pass, run,
                   failed, discovered, authors, call, prev>>

\* lines 271, 313, 322: neither branch applies
NothingToDo ==
    /\ At("enter") /\ ~WantsContentSync(Cur) /\ ~WantsDirectorySync(Cur)
    /\ stack' = Pop
    /\ UNCHANGED <<articles, files, aux, pages, idx, status, err, pass, run,
                   failed, discovered, authors, call, prev>>

\* _get_placement, lines 177-183: the override or the run-level default
PlaceDirect ==
    /\ At("place")
    /\ LET sp == self_placement(Cur)
           pl == IF HasFullOverride(sp) THEN sp
                 ELSE Merge(sp, DefaultSpace, DefaultAncestor)
       IN  /\ HasFullOverride(sp) \/ Parent(Cur) = <<>>
           /\ stack' = [stack EXCEPT ![Len(stack)] =
                           [@ EXCEPT !.pc = "ensure", !.space = pl.space,
                                     !.ancestor_id = pl.ancestor_id]]
    /\ UNCHANGED <<articles, files, aux, pages, idx, status, err, pass, run,
                   failed, discovered, authors, call, prev>>

\* _get_placement, lines 185-197: find or synthesize the parent, sync it now
PlaceRecurse ==
    /\ At("place")
    /\ ~HasFullOverride(self_placement(Cur)) /\ Parent(Cur) # <<>>
    /\ Len(stack) < MaxDepth
    /\ articles' = WithParent(Parent(Cur))
    /\ aux' = IF Len(articles') > Len(articles) THEN Append(aux, NoAux) ELSE aux
    /\ stack' = Append(Goto("placed"), Frame(ParentIndex(Parent(Cur)), "enter"))
    /\ UNCHANGED <<files, pages, idx, status, err, pass, run, failed,
                   discovered, authors, call, prev>>

\* the interpreter's recursion limit: RecursionError
RecursionLimit ==
    /\ At("place")
    /\ ~HasFullOverride(self_placement(Cur)) /\ Parent(Cur) # <<>>
    /\ Len(stack) >= MaxDepth
    /\ articles' = WithParent(Parent(Cur))
    /\ aux' = IF Len(articles') > Len(articles) THEN Append(aux, NoAux) ELSE aux
    /\ Raise("recursion")
    /\ UNCHANGED <<files, pages, idx, pass, run, discovered, authors, call, prev>>

\* as ParentPlacement, with the parent's own ancestor for its page id
ParentPlacementAncestor(parent) ==
    [space |-> parent.space, ancestor_id |-> parent.ancestor_id]

\* as ParentPlacement, with the run-level default where the parent has
\* no space or no page
ParentPlacementOrDefault(parent) ==
    [space |-> IF parent.space = None THEN DefaultSpace ELSE parent.space,
     ancestor_id |-> IF parent.confluence_id = NoneId THEN DefaultAncestor
                     ELSE parent.confluence_id]

\* line 201: what the parent contributes to the placement of its child
ParentPlacement(parent) ==
    [space |-> parent.space, ancestor_id |-> parent.confluence_id]

\* _get_placement, line 201: the parent's placement, after its sync returned
PlaceFromParent ==
    /\ At("placed")
    /\ LET pp == ParentPlacement(articles[ParentIndex(Parent(Cur))])
           pl == Merge(self_placement(Cur), pp.space, pp.ancestor_id)
       IN  stack' = [stack EXCEPT ![Len(stack)] =
                        [@ EXCEPT !.pc = "ensure", !.space = pl.space,
                                  !.ancestor_id = pl.ancestor_id]]
    /\ UNCHANGED <<articles, files, aux, pages, idx, status, err, pass, run,
                   failed, discovered, authors, call, prev>>

\* as PlacementMissing, failing only when both fields are unset
PlacementMissingBoth(fr) == fr.space = None /\ fr.ancestor_id = NoneId

\* line 240: the test _ensure_exists makes on the resolved placement
PlacementMissing(fr) == fr.space = None \/ fr.ancestor_id = NoneId

\* a call of the remote client, as recorded for the article it is about
Call(op, space, ancestor, ok) ==
    [op |-> op, space |-> space, ancestor_id |-> ancestor, ok |-> ok]

\* _ensure_exists, lines 240-241
PlacementFails ==
    /\ At("ensure")
    /\ PlacementMissing(Top)
    /\ Raise("placement")
    /\ UNCHANGED <<articles, files, aux, pages, idx, pass, run, discovered, authors, call,
                   prev>>

\* _ensure_exists, line 243: the lookup raises
ExistsRaises ==
    /\ At("ensure")
    /\ ~PlacementMissing(Top)
    /\ aux' = [aux EXCEPT ![Top.art] =
                 [@ EXCEPT !.nExists = @ + 1,
                           !.calls = Append(@, Call("exists", Top.space,
                                                    Top.ancestor_id, FALSE))]]
    /\ Raise("remote")
    /\ UNCHANGED <<articles, files, pages, idx, pass, run, discovered, authors, call, prev>>

\* as AfterEnsure, returning without the update
AfterEnsureReturn(a) == Pop

\* as AfterEnsure, with the update made for a content-less directory too
AfterEnsureUpdate(a) == Goto("update")

\* where _sync_article goes on after _ensure_exists returned (lines 290, 319)
AfterEnsure(a) == IF a.content THEN Goto("update") ELSE Pop

\* _ensure_exists, lines 243-265: the lookup finds the page
ExistsHits ==
    /\ At("ensure")
    /\ ~PlacementMissing(Top)
    /\ Matches(id_label(Cur), Top.space, Top.ancestor_id) # {}
    /\ LET page == pages[FirstMatch(id_label(Cur), Top.space, Top.ancestor_id)]
       IN  /\ articles' = [articles EXCEPT ![Top.art] =
                              Adopt(Cur, page, Top.space, Top.ancestor_id)]
           /\ aux' = [aux EXCEPT ![Top.art] =
                        [@ EXCEPT !.nExists = @ + 1, !.lookup = "hit",
                                  !.calls = Append(@, Call("exists", Top.space,
                                                           Top.ancestor_id, TRUE)),
                                  !.adoptId = page.id,
                                  !.adoptVersion = page.version]]
    /\ stack' = AfterEnsure(Cur)
    /\ UNCHANGED <<files, pages, idx, status, err, pass, run, failed,
                   discovered, authors, call, prev>>

\* _ensure_exists, lines 243-250: the lookup finds nothing
ExistsMisses ==
    /\ At("ensure")
    /\ ~PlacementMissing(Top)
    /\ Matches(id_label(Cur), Top.space, Top.ancestor_id) = {}
    /\ aux' = [aux EXCEPT ![Top.art] =
                 [@ EXCEPT !.nExists = @ + 1, !.lookup = "miss",
                           !.calls = Append(@, Call("exists", Top.space,
                                                    Top.ancestor_id, TRUE))]]
    /\ stack' = Goto("create")
    /\ UNCHANGED <<articles, files, pages, idx, status, err, pass, run,
                   failed, discovered, authors, call, prev>>

\* as CreateArgs, with the run-level ancestor in place of the resolved one
CreateArgsRunAncestor(a, fr) ==
    [label |-> id_label(a), space |-> fr.space, ancestor_id |-> DefaultAncestor]

\* lines 251-256: the label and the placement create is called with
CreateArgs(a, fr) ==
    [label |-> id_label(a), space |-> fr.space, ancestor_id |-> fr.ancestor_id]

\* _ensure_exists, line 251: create raises
CreateRaises ==
    /\ At("create")
    /\ LET args == CreateArgs(Cur, Top)
       IN  aux' = [aux EXCEPT ![Top.art] =
                     [@ EXCEPT !.nCreate = @ + 1,
                               !.calls = Append(@, Call("create", args.space,
                                                        args.ancestor_id, FALSE))]]
    /\ Raise("remote")
    /\ UNCHANGED <<articles, files, pages, idx, pass, run, discovered, authors, call, prev>>

\* _ensure_exists, lines 251-265: create returns the new page
CreateReturns ==
    /\ At("create")
    /\ LET args == CreateArgs(Cur, Top)
           page == NewPage(args.label, args.space, args.ancestor_id)
       IN  /\ pages' = Append(pages, page)
           /\ articles' = [articles EXCEPT ![Top.art] =
                              Adopt(Cur, page, Top.space, Top.ancestor_id)]
           /\ aux' = [aux EXCEPT ![Top.art] =
                        [@ EXCEPT !.nCreate = @ + 1,
                                  !.calls = Append(@, Call("create", args.space,
                                                           args.ancestor_id, TRUE)),
                                  !.adoptId = page.id,
                                  !.adoptVersion = page.version]]
    /\ stack' = AfterEnsure(Cur)
    /\ UNCHANGED <<files, idx, status, err, pass, run, failed, discovered, authors, call,
                   prev>>

\* _sync_article, lines 290-310: the conversion or the update raises
UpdateRaises ==
    /\ At("update") /\ Cur.state = CREATED
    /\ aux' = [aux EXCEPT ![Top.art] =
                 [@ EXCEPT !.nUpdate = @ + 1,
                           !.calls = Append(@, Call("update", Cur.space,
                                                    Cur.ancestor_id, FALSE))]]
    /\ Raise("remote")
    /\ UNCHANGED <<articles, files, pages, idx, pass, run, discovered, authors, call, prev>>

\* as AfterUpdate, with the state written to a copy: the article keeps its
\* state
AfterUpdateLocal(a) == a

\* line 312: the tracked article is marked SYNCED
AfterUpdate(a) == [a EXCEPT !.state = SYNCED]

\* _sync_article, lines 290-312: update returns
UpdateReturns ==
    /\ At("update") /\ Cur.state = CREATED
    /\ pages' = Updated(Cur.confluence_id, Cur.page_version)
    /\ aux' = [aux EXCEPT ![Top.art] =
                 [@ EXCEPT !.nUpdate = @ + 1,
                           !.calls = Append(@, Call("update", Cur.space,
                                                    Cur.ancestor_id, TRUE)),
                           !.updated = TRUE]]
    /\ articles' = [articles EXCEPT ![Top.art] = AfterUpdate(Cur)]
    /\ stack' = Pop
    /\ UNCHANGED <<files, idx, status, err, pass, run, failed, discovered, authors, call,
                   prev>>

\* sync() is called again on the same orchestrator after a pass that raised
SyncAgain ==
    /\ status = "aborted"
    /\ pass < MaxPasses
    /\ pass' = pass + 1
    /\ status' = "running"
    /\ err' = "none"
    /\ idx' = 1
    /\ aux' = [i \in DOMAIN aux |->
                 [aux[i] EXCEPT !.nExists = 0, !.nCreate = 0, !.nUpdate = 0,
                                !.lookup = "none", !.to_share = "unknown",
                                !.nAuthor = 0, !.parsed = "no",
                                !.calls = <<>>]]
    /\ UNCHANGED <<articles, files, pages, stack, run, failed, discovered, authors, call,
                   prev>>

\* main() is run again on the unchanged files after a run in which nothing
\* raised: fresh Article objects against the remote pages the run left
NewRun ==
    /\ status = "done"
    /\ ~failed
    /\ run < MaxRuns
    /\ run' = run + 1
    /\ prev' = [p \in {articles[i].relative_path : i \in DOMAIN articles} |->
                  LET i == CHOOSE i \in DOMAIN articles :
                              articles[i].relative_path = p
                  IN  articles[i].confluence_id]
    /\ articles' = [i \in DOMAIN discovered |-> Discover(discovered[i])]
    /\ aux' = [i \in DOMAIN discovered |-> NoAux]
    /\ idx' = 1
    /\ pass' = 1
    /\ status' = "running"
    /\ UNCHANGED <<files, pages, stack, err, failed, discovered, authors, call>>

\* one step of a pass of sync()
Step ==
    \/ SyncNext
    \/ SyncReturn
    \/ ParseRaises
    \/ ParseReturns
    \/ DirectoryEnter
    \/ NothingToDo
    \/ PlaceDirect
    \/ PlaceRecurse
    \/ RecursionLimit
    \/ PlaceFromParent
    \/ PlacementFails
    \/ ExistsRaises
    \/ ExistsHits
    \/ ExistsMisses
    \/ CreateRaises
    \/ CreateReturns
    \/ UpdateRaises
    \/ UpdateReturns

\* one orchestrator object, whose sync() may be called again after it raised
Next ==
    \/ Step
    \/ SyncAgain

Spec == Init /\ [][Next]_vars

\* the process run again on the same files and the same remote store
NextRerun ==
    \/ Step
    \/ NewRun

SpecRerun == Init /\ [][NextRerun]_vars

\* one call of sync() over documents that declare authors
NextAuthors == Step

SpecAuthors == InitAuthors /\ [][NextAuthors]_vars

----------------------------------------------------------------------------
(* Properties *)

Moves == {<<TO_BE_SYNCED, CREATED>>, <<CREATED, SYNCED>>,
          <<TO_BE_SYNCED, SKIPPED>>}

PlacedByParent ==
    {k \in DOMAIN stack :
        /\ \/ stack[k].pc \in {"create", "update"}
           \/ /\ stack[k].pc = "ensure"
              /\ stack[k].space # None /\ stack[k].ancestor_id # NoneId
        /\ Parent(articles[stack[k].art]) # <<>>
        /\ ~HasFullOverride(self_placement(articles[stack[k].art]))}

\* the placement a frame's document is given to the remote calls with
PlacementOf(k) ==
    IF stack[k].pc = "update"
    THEN [space |-> articles[stack[k].art].space,
          ancestor_id |-> articles[stack[k].art].ancestor_id]
    ELSE [space |-> stack[k].space, ancestor_id |-> stack[k].ancestor_id]

ParentOf(k) == articles[ParentIndex(Parent(articles[stack[k].art]))]

----------------------------------------------------------------------------
----------------------------------------------------------------------------
----------------------------------------------------------------------------
----------------------------------------------------------------------------
\* a root-level document that opts in and declares no placement
RootOptIn(i) ==
    /\ aux[i].to_share = "yes"
    /\ articles[i].content
    /\ Parent(articles[i]) = <<>>
    /\ self_placement(articles[i]).space = None
    /\ self_placement(articles[i]).ancestor_id = NoneId

RootCalls == <<"exists", "create", "update">>

----------------------------------------------------------------------------
----------------------------------------------------------------------------
\* what a document inherits: the run-level defaults at the root, else the
\* space and the confluence_id of its parent directory
Inherited(a) ==
    IF Parent(a) = <<>>
    THEN [space |-> DefaultSpace, ancestor_id |-> DefaultAncestor]
    ELSE LET parent == articles[ParentIndex(Parent(a))]
         IN  [space |-> parent.space, ancestor_id |-> parent.confluence_id]

----------------------------------------------------------------------------
----------------------------------------------------------------------------
----------------------------------------------------------------------------
\* the last remote call made for article i in this pass raised
LastCallRaised(i) ==
    /\ aux[i].calls # <<>>
    /\ ~aux[i].calls[Len(aux[i].calls)].ok

----------------------------------------------------------------------------
----------------------------------------------------------------------------
(* Functions and methods taken on their own *)

\* the variables of the orchestrator
orch == <<articles, files, aux, pages, stack, idx, status, err, pass, run,
          failed, discovered, authors, prev>>

\* no orchestrator is running
Idle ==
    /\ discovered = <<>>
    /\ articles = <<>>
    /\ files = <<>>
    /\ aux = <<>>
    /\ authors = <<>>
    /\ pages = <<>>
    /\ stack = <<>>
    /\ idx = 1
    /\ status = "idle"
    /\ err = "none"
    /\ pass = 1
    /\ run = 1
    /\ failed = FALSE
    /\ prev = <<>>

(* record.py: Article.id_label of two paths *)

LabelChars == {"a", ".", "_"}

LabelPaths == UNION { [1..n -> LabelChars] : n \in 1..MaxLen }

LabelCalls ==
    { [fn |-> "id_label", pc |-> "call", p |-> p, q |-> q,
       lp |-> <<>>, lq |-> <<>>] : p \in LabelPaths, q \in LabelPaths }

\* id_label is read of an article of each path
IdLabel ==
    /\ call.fn = "id_label" /\ call.pc = "call"
    /\ call' = [call EXCEPT !.pc = "done",
                            !.lp = id_label(Article(call.p, TRUE, FALSE)),
                            !.lq = id_label(Article(call.q, TRUE, FALSE))]
    /\ UNCHANGED orch

(* convert.py: parse of a post *)

YAML_BOUNDARY == "---"

\* the lines of a post: the boundary, a line of YAML, a blank line, a line
\* of text, and a line of text with a link that sanitise_links rewrites
PostLines == {YAML_BOUNDARY, "key: value", "", "text", "text (github link)"}

Posts == UNION { [1..n -> PostLines] : n \in 1..MaxLines }

\* str.strip() of the joined lines: the blank lines at both ends go
RECURSIVE Strip(_)
Strip(ls) ==
    IF ls = <<>> THEN ls
    ELSE IF ls[1] = "" THEN Strip(Tail(ls))
    ELSE IF ls[Len(ls)] = "" THEN Strip(SubSeq(ls, 1, Len(ls) - 1))
    ELSE ls

\* sanitise_links: the prefixes of lines 55-61 are replaced by './'
sanitise_links(ls) ==
    [i \in DOMAIN ls |->
        IF ls[i] = "text (github link)" THEN "text (relative link)" ELSE ls[i]]

\* parse, lines 22-48: every line goes to the markdown; the front matter is
\* the title taken from the file name and wiki.share 'true', and no YAML is
\* loaded
parse(ls) ==
    [yaml  |-> <<>>,
     title |-> "get_title(post_path)",
     share |-> "true",
     markdown |-> sanitise_links(Strip(ls))]

\* nothing returned yet
NoOutput == [yaml |-> <<>>, title |-> "", share |-> "", markdown |-> <<>>]

ParseCalls ==
    { [fn |-> "parse", pc |-> "call", post |-> ls, out |-> NoOutput]
        : ls \in Posts }

\* parse is called on the post
Parse ==
    /\ call.fn = "parse" /\ call.pc = "call"
    /\ call' = [call EXCEPT !.pc = "done", !.out = parse(call.post)]
    /\ UNCHANGED orch

(* markdown-to-confluence.py: _set_author_keys over Confluence.get_author *)

Users == {"u", "v"}

\* what the server holds for a user name: nothing, or a profile with a
\* userKey, with an accountId, or with both
Profiles == {"none", "userKey", "accountId", "both"}

\* Confluence.get_author, lines 280-284: the profile, or {} for a response
\* without an accountId
get_author(profile) ==
    IF profile \in {"accountId", "both"} THEN profile ELSE "{}"

AuthorCalls ==
    { [fn |-> "set_author_keys", pc |-> "loop", authors |-> as,
       directory |-> d, i |-> 1, author_keys |-> <<>>]
        : as \in UNION { [1..n -> Users] : n \in 0..MaxAuthors },
          d \in [Users -> Profiles] }

\* lines 222-225: get_author returns {} and the author is passed over
AuthorUnresolved ==
    /\ call.fn = "set_author_keys" /\ call.pc = "loop"
    /\ call.i <= Len(call.authors)
    /\ get_author(call.directory[call.authors[call.i]]) = "{}"
    /\ call' = [call EXCEPT !.i = @ + 1]
    /\ UNCHANGED orch

\* lines 222-226: get_author returns a profile and its userKey is appended
AuthorKeyAppended ==
    /\ call.fn = "set_author_keys" /\ call.pc = "loop"
    /\ call.i <= Len(call.authors)
    /\ get_author(call.directory[call.authors[call.i]]) = "both"
    /\ call' = [call EXCEPT !.i = @ + 1,
                            !.author_keys = Append(@, call.authors[call.i])]
    /\ UNCHANGED orch

\* line 226: get_author returns a profile that has no 'userKey': KeyError
AuthorKeyError ==
    /\ call.fn = "set_author_keys" /\ call.pc = "loop"
    /\ call.i <= Len(call.authors)
    /\ get_author(call.directory[call.authors[call.i]]) = "accountId"
    /\ call' = [call EXCEPT !.pc = "raised"]
    /\ UNCHANGED orch

\* line 227: the loop is over and the keys are stored
AuthorKeysSet ==
    /\ call.fn = "set_author_keys" /\ call.pc = "loop"
    /\ call.i > Len(call.authors)
    /\ call' = [call EXCEPT !.pc = "returned"]
    /\ UNCHANGED orch

(* confluence.py: one call of a method of the client *)

DEFAULT_LABEL_PREFIX == "global"

\* tags=None
NoTags == [none |-> TRUE, list |-> <<>>]

\* tags=None, or a list of tags
TagLists ==
    {NoTags} \cup
    { [none |-> FALSE, list |-> l]
        : l \in UNION { [1..n -> {"t", "u"}] : n \in 0..MaxTags } }

\* attachment paths: of a file that is there, or of one that is not
AttachmentLists ==
    UNION { [1..n -> {"file", "missing"}] : n \in 0..MaxAttachments }

\* a call as it is made: the keyword the label is passed by, the label, the
\* tags, the attachments, the version number of the page, dry_run, and the
\* arguments other than the label that are passed empty or left out
ClientCall(fn, kw, slug, tags, attachments, version, dry_run, empty) ==
    [fn |-> fn, kw |-> kw, slug |-> slug, tags |-> tags,
     attachments |-> attachments, version |-> version, dry_run |-> dry_run,
     empty |-> empty,
     pc |-> "bind", stage |-> fn, i |-> 1, requests |-> <<>>,
     error |-> "none", missing |-> <<>>, result |-> "none"]

\* the arguments besides the label that create and update take and test
OtherArgs(fn) ==
    IF fn = "update" THEN {"content", "title", "post_id", "space"}
    ELSE {"content", "title", "space"}

ClientCalls ==
    { ClientCall("exists", kw, slug, NoTags, <<>>, 1, dry, {})
        : kw \in {"slug", "id_label"}, slug \in {"", "s"}, dry \in BOOLEAN }
    \cup
    { ClientCall("get_author", "username", "s", NoTags, <<>>, 1, dry, {})
        : dry \in BOOLEAN }
    \cup
    { ClientCall("create_labels", "slug", slug, tags, <<>>, 1, dry, {})
        : slug \in {"", "s"}, tags \in TagLists, dry \in BOOLEAN }
    \cup
    { ClientCall(fn, "slug", c[1], c[2], c[3], c[4], c[5], {})
        : fn \in {"create", "update"},
          c \in {"", "s"} \X TagLists \X AttachmentLists
                 \X (1..MaxVersion) \X BOOLEAN }

\* calls of create that leave out or pass empty some argument besides the
\* label
IncompleteCreates ==
    { ClientCall("create", "slug", slug, tags, att, v, dry, e)
        : slug \in {"", "s"}, tags \in TagLists, att \in AttachmentLists,
          v \in 1..MaxVersion, dry \in BOOLEAN,
          e \in (SUBSET OtherArgs("create")) \ {{}} }

\* the same of update
IncompleteUpdates ==
    { ClientCall("update", "slug", slug, tags, att, v, dry, e)
        : slug \in {"", "s"}, tags \in TagLists, att \in AttachmentLists,
          v \in 1..MaxVersion, dry \in BOOLEAN,
          e \in (SUBSET OtherArgs("update")) \ {{}} }

IsClientCall == call.fn \in {"exists", "get_author", "create_labels",
                             "create", "update"}

\* _request, lines 98-108: with dry_run only a GET goes on to the session
Reaches(c, method) == ~(c.dry_run /\ method # "GET")

\* _request, lines 108, 129, 132: {} for a request that is only logged,
\* else response.json() of an ok response, response.content of any other
Responses(c, method) ==
    IF Reaches(c, method) THEN {"json", "content"} ELSE {"{}"}

\* a call of _request
Request(c, method, kind, response) ==
    [method |-> method, kind |-> kind, sent |-> Reaches(c, method),
     response |-> response, size |-> 0, labels |-> <<>>, version |-> 0,
     body |-> "none"]

\* the call ends with an exception
Raised(c, error) == [c EXCEPT !.pc = "raised", !.error = error]

\* the call returns
Returned(c, result) == [c EXCEPT !.pc = "returned", !.result = result]

\* a keyword the method does not declare: exists takes the label as slug
BindTypeError ==
    /\ IsClientCall /\ call.pc = "bind"
    /\ call.fn = "exists" /\ call.kw # "slug"
    /\ call' = Raised(call, "TypeError")
    /\ UNCHANGED orch

\* as Required, with the label as the only argument that is tested
RequiredSlug(fn) ==
    IF fn \in {"exists", "create", "update"} THEN <<"slug">> ELSE <<>>

\* the dict each method hands to _require_kwargs (lines 159, 319-324,
\* 382-388), in the order of its keys
Required(fn) ==
    CASE fn = "exists" -> <<"slug">>
      [] fn = "create" -> <<"content", "slug", "title", "space">>
      [] fn = "update" -> <<"content", "slug", "title", "post_id", "space">>
      [] OTHER -> <<>>

\* `not v` of _require_kwargs, line 74
Falsy(c, k) == IF k = "slug" THEN c.slug = "" ELSE k \in c.empty

\* _require_kwargs, lines 72-75: the keys whose value is empty, in order
Missing(c) ==
    LET req == Required(c.fn)
        keep(k) == Falsy(c, k)
    IN  SelectSeq(req, keep)

\* _require_kwargs, lines 76-77: MissingArgumentException(missing)
BindMissing ==
    /\ IsClientCall /\ call.pc = "bind"
    /\ ~(call.fn = "exists" /\ call.kw # "slug")
    /\ Missing(call) # <<>>
    /\ call' = [Raised(call, "MissingArgumentException") EXCEPT
                   !.missing = Missing(call)]
    /\ UNCHANGED orch

\* the first request of each method
FirstPc(c) ==
    CASE c.fn = "exists" -> "search"
      [] c.fn = "get_author" -> "user"
      [] c.fn = "create_labels" -> "labels"
      [] c.fn = "create" -> "page"
      [] c.fn = "update" -> IF c.attachments = <<>> THEN "put" ELSE "attach"

\* the arguments are bound and the body of the method starts
BindOk ==
    /\ IsClientCall /\ call.pc = "bind"
    /\ ~(call.fn = "exists" /\ call.kw # "slug")
    /\ Missing(call) = <<>>
    /\ call' = [call EXCEPT !.pc = FirstPc(call)]
    /\ UNCHANGED orch

\* exists, lines 161-175: the search, and what it returns
Search ==
    /\ IsClientCall /\ call.pc = "search"
    /\ \E r \in Responses(call, "GET"), n \in 0..MaxResults :
          LET req == [Request(call, "GET", "search", r) EXCEPT !.size = n]
              c == [call EXCEPT !.requests = Append(@, req)]
          IN  call' = IF r = "content" THEN Raised(c, "AttributeError")
                      ELSE IF n = 0 THEN Returned(c, None)
                      ELSE Returned(c, "results[0]")
    /\ UNCHANGED orch

\* get_author, lines 279-284
UserGet ==
    /\ IsClientCall /\ call.pc = "user"
    /\ \E r \in Responses(call, "GET"), profile \in Profiles :
          LET req == Request(call, "GET", "user", r)
              c == [call EXCEPT !.requests = Append(@, req)]
          IN  call' = IF r = "content" THEN Returned(c, "{}")
                      ELSE Returned(c, get_author(profile))
    /\ UNCHANGED orch

\* as Labels, with the slug label left out when there are tags
LabelsOfTags(slug, tags) ==
    IF tags.list = <<>>
    THEN <<[prefix |-> DEFAULT_LABEL_PREFIX, name |-> slug]>>
    ELSE [i \in DOMAIN tags.list |->
             [prefix |-> DEFAULT_LABEL_PREFIX, name |-> tags.list[i]]]

\* create_labels, lines 189-194: the payload
Labels(slug, tags) ==
    <<[prefix |-> DEFAULT_LABEL_PREFIX, name |-> slug]>> \o
    [i \in DOMAIN tags.list |->
        [prefix |-> DEFAULT_LABEL_PREFIX, name |-> tags.list[i]]]

\* update, lines 392-396: where update starts
FirstUpdatePc(c) == IF c.attachments = <<>> THEN "put" ELSE "attach"

\* where the method goes on after create_labels has returned: create goes
\* on to update (line 345), update and create_labels return
AfterLabels(c) ==
    IF c.stage = "create"
    THEN [c EXCEPT !.stage = "update", !.pc = FirstUpdatePc(c)]
    ELSE Returned(c, "none")

\* create_labels, lines 189-218: the label POST
PostLabels ==
    /\ IsClientCall /\ call.pc = "labels"
    /\ \E r \in Responses(call, "POST") :
          LET req == [Request(call, "POST", "labels", r) EXCEPT
                         !.labels = Labels(call.slug, call.tags)]
              c == [call EXCEPT !.requests = Append(@, req)]
          IN  call' = IF r = "content" THEN Raised(c, "AttributeError")
                      ELSE AfterLabels(c)
    /\ UNCHANGED orch

\* as AfterPage, going on to update without labelling the new page
AfterPageNoLabels(c) ==
    [c EXCEPT !.stage = "update", !.pc = FirstUpdatePc(c)]

\* create, lines 334-336: the new page is labelled next
AfterPage(c) == [c EXCEPT !.pc = "labels"]

\* create, lines 326-334: the page POST with the placeholder body
PostPage ==
    /\ IsClientCall /\ call.pc = "page"
    /\ \E r \in Responses(call, "POST") :
          LET req == [Request(call, "POST", "page", r) EXCEPT
                         !.body = "Upload in progress..."]
              c == [call EXCEPT !.requests = Append(@, req)]
          IN  call' = IF r = "content" THEN Raised(c, "TypeError")
                      ELSE IF r = "{}" THEN Raised(c, "KeyError")
                      ELSE AfterPage(c)
    /\ UNCHANGED orch

\* update, lines 395-396: the loop over the attachments goes on, or ends
AfterAttachment(c) ==
    [c EXCEPT !.i = @ + 1,
              !.pc = IF c.i + 1 > Len(c.attachments) THEN "put" ELSE "attach"]

\* upload_attachment, lines 261-263: no file at the path, nothing is sent
AttachmentMissing ==
    /\ IsClientCall /\ call.pc = "attach"
    /\ call.attachments[call.i] = "missing"
    /\ call' = AfterAttachment(call)
    /\ UNCHANGED orch

\* upload_attachment, lines 264-270: the upload, whose response is dropped
UploadAttachment ==
    /\ IsClientCall /\ call.pc = "attach"
    /\ call.attachments[call.i] = "file"
    /\ \E r \in Responses(call, "POST") :
          LET req == Request(call, "POST", "attachment", r)
          IN  call' = AfterAttachment([call EXCEPT
                                          !.requests = Append(@, req)])
    /\ UNCHANGED orch

\* as new_version, the version of the page sent back as it is
new_version_same(number) == number

\* update, line 404
new_version(number) == number + 1

\* update, lines 399-415: the content PUT
PutContent ==
    /\ IsClientCall /\ call.pc = "put"
    /\ \E r \in Responses(call, "PUT") :
          LET req == [Request(call, "PUT", "content", r) EXCEPT
                         !.version = new_version(call.version),
                         !.body = "content"]
              c == [call EXCEPT !.requests = Append(@, req)]
          IN  call' = IF r = "content" THEN Raised(c, "TypeError")
                      ELSE IF r = "{}" THEN Raised(c, "KeyError")
                      ELSE [c EXCEPT !.pc = "labels"]
    /\ UNCHANGED orch

InitUnits ==
    /\ Idle
    /\ \/ call \in LabelCalls \cup ParseCalls \cup AuthorCalls \cup ClientCalls
       \/ call \in IncompleteCreates
       \/ call \in IncompleteUpdates

NextUnits ==
    \/ IdLabel
    \/ Parse
    \/ AuthorUnresolved
    \/ AuthorKeyAppended
    \/ AuthorKeyError
    \/ AuthorKeysSet
    \/ BindTypeError
    \/ BindMissing
    \/ BindOk
    \/ Search
    \/ UserGet
    \/ PostLabels
    \/ PostPage
    \/ AttachmentMissing
    \/ UploadAttachment
    \/ PutContent

SpecUnits == InitUnits /\ [][NextUnits]_vars

----------------------------------------------------------------------------
\* C23: two documents with different relative_path values have different
\* id_label values.
C23_LabelsDistinct ==
    (call.fn = "id_label" /\ call.pc = "done" /\ call.p # call.q)
        => call.lp # call.lq
----------------------------------------------------------------------------
\* the closing boundary of a post: the first boundary line that closes a
\* non-empty front matter, a leading boundary line opening it
ClosingBoundary(ls) ==
    LET B == {i \in 2..Len(ls) : ls[i] = YAML_BOUNDARY}
    IN  IF B = {} THEN 0 ELSE CHOOSE i \in B : \A j \in B : i <= j

\* the YAML lines among ls
RECURSIVE YamlOf(_)
YamlOf(ls) ==
    IF ls = <<>> THEN <<>>
    ELSE IF ls[1] \in {YAML_BOUNDARY, ""} THEN YamlOf(Tail(ls))
    ELSE <<ls[1]>> \o YamlOf(Tail(ls))

\* C27: for a post with a closing boundary, parse returns the YAML before
\* that boundary as the front matter and only the lines after it, stripped,
\* as the markdown, later boundary lines included.
C27_ParseSplitsAtBoundary ==
    (call.fn = "parse" /\ call.pc = "done"
        /\ ClosingBoundary(call.post) # 0)
        => LET c == ClosingBoundary(call.post)
           IN  /\ call.out.yaml = YamlOf(SubSeq(call.post, 1, c - 1))
               /\ call.out.markdown =
                     Strip(SubSeq(call.post, c + 1, Len(call.post)))
----------------------------------------------------------------------------
\* the declared authors get_author returns a profile for, in declared order
RECURSIVE Resolved(_, _)
Resolved(as, d) ==
    IF as = <<>> THEN <<>>
    ELSE IF get_author(d[as[1]]) = "{}" THEN Resolved(Tail(as), d)
    ELSE <<as[1]>> \o Resolved(Tail(as), d)

\* C21: _set_author_keys never raises, and once it is over the author keys
\* are the keys of the declared authors that get_author resolves, in
\* declared order.
C21_KeysOfResolvedAuthors ==
    call.fn = "set_author_keys" =>
        /\ call.pc # "raised"
        /\ call.pc = "returned" =>
              call.author_keys = Resolved(call.authors, call.directory)
----------------------------------------------------------------------------
\* C22: a create or update call in which a request got a non-success
\* response does not return as if it had succeeded.
C22_FailureSurfaced ==
    (/\ call.fn \in {"create", "update"}
     /\ \E k \in DOMAIN call.requests : call.requests[k].response = "content")
        => call.pc # "returned"

----------------------------------------------------------------------------
\* C24: with dry_run no request of a call of the client reaches the session.
C24_DryRunSendsNothing ==
    (IsClientCall /\ call.dry_run)
        => \A k \in DOMAIN call.requests : ~call.requests[k].sent

----------------------------------------------------------------------------
\* the order of the requests of update
Rank(kind) ==
    CASE kind = "attachment" -> 1
      [] kind = "content" -> 2
      [] kind = "labels" -> 3

\* the files among the attachments
Files(as) == {i \in DOMAIN as : as[i] = "file"}

\* C26: in a call of update every attachment upload comes before the
\* content PUT and the content PUT before the label POST; there is at most
\* one PUT and one label POST, and the PUT carries the version number of
\* the page plus one; an update that returns has made one upload for each
\* attachment file, then the PUT, then the label POST.
C26_UpdateRequestOrder ==
    call.fn = "update" =>
        LET R == call.requests
        IN  /\ \A j, k \in DOMAIN R :
                  j < k => /\ Rank(R[j].kind) <= Rank(R[k].kind)
                           /\ R[j].kind = R[k].kind => R[j].kind = "attachment"
            /\ \A k \in DOMAIN R :
                  /\ R[k].kind = "attachment" => R[k].method = "POST"
                  /\ R[k].kind = "labels" => R[k].method = "POST"
                  /\ R[k].kind = "content" =>
                        /\ R[k].method = "PUT"
                        /\ R[k].version = call.version + 1
            /\ call.pc = "returned" =>
                  /\ Len(R) = Cardinality(Files(call.attachments)) + 2
                  /\ R[Len(R)].kind = "labels"
                  /\ R[Len(R) - 1].kind = "content"

\* update has returned after two uploads, the PUT and the label POST
C26_Witness ==
    /\ call.fn = "update" /\ call.pc = "returned"
    /\ ~call.dry_run
    /\ call.version = 2
    /\ Len(call.requests) = 4
    /\ call.requests[2].kind = "attachment"
    /\ call.requests[3].version = 3
    /\ call.requests[4].kind = "labels"
----------------------------------------------------------------------------
\* C28: exists with an empty label raises MissingArgumentException without
\* a request; with a label it makes the search, and returns the first
\* result when the response reports a size other than 0, None when it
\* reports 0.
C28_ExistsByLabel ==
    (call.fn = "exists" /\ call.pc \in {"returned", "raised"}) =>
        IF call.slug = ""
        THEN /\ call.error = "MissingArgumentException"
             /\ call.requests = <<>>
        ELSE /\ Len(call.requests) = 1
             /\ call.requests[1].response = "json" =>
                   /\ call.pc = "returned"
                   /\ call.result = IF call.requests[1].size = 0 THEN None
                                     ELSE "results[0]"
----------------------------------------------------------------------------
\* C29: create_labels makes one POST, whose payload holds 1 + len(tags)
\* labels, all with the prefix 'global': first the one named by the slug,
\* then one per tag, in order; with tags None or empty it holds the slug
\* label alone.
C29_SlugAndTagLabels ==
    call.fn = "create_labels" =>
        /\ Len(call.requests) <= 1
        /\ call.pc \in {"returned", "raised"} => Len(call.requests) = 1
        /\ \A k \in DOMAIN call.requests :
              LET req == call.requests[k]
              IN  /\ req.method = "POST" /\ req.kind = "labels"
                  /\ Len(req.labels) = 1 + Len(call.tags.list)
                  /\ req.labels[1].name = call.slug
                  /\ \A i \in DOMAIN req.labels :
                        req.labels[i].prefix = DEFAULT_LABEL_PREFIX
                  /\ \A i \in DOMAIN call.tags.list :
                        req.labels[i + 1].name = call.tags.list[i]

\* create_labels has returned after a POST of the slug label and two tags
C29_Witness ==
    /\ call.fn = "create_labels" /\ call.pc = "returned"
    /\ Len(call.tags.list) = 2
    /\ Len(call.requests[1].labels) = 3
    /\ call.requests[1].sent
----------------------------------------------------------------------------
\* C30: in a call of create the first request is the page POST with the
\* placeholder body and the second the label POST with the slug; the
\* requests of update follow (the uploads, the PUT with the content, the
\* label POST), and a create that returns has made them all.
C30_CreateRequestOrder ==
    call.fn = "create" =>
        LET R == call.requests
        IN  /\ \A k \in DOMAIN R :
                  /\ k = 1 => /\ R[k].kind = "page" /\ R[k].method = "POST"
                              /\ R[k].body = "Upload in progress..."
                  /\ k = 2 => /\ R[k].kind = "labels"
                              /\ R[k].labels[1].name = call.slug
                  /\ k > 2 => R[k].kind \in {"attachment", "content", "labels"}
                  /\ R[k].kind = "content" => R[k].body = "content"
            /\ \A j, k \in DOMAIN R :
                  (2 < j /\ j < k) => Rank(R[j].kind) <= Rank(R[k].kind)
            /\ call.pc = "returned" =>
                  /\ Len(R) = Cardinality(Files(call.attachments)) + 4
                  /\ R[Len(R)].kind = "labels"
                  /\ R[Len(R) - 1].kind = "content"

\* create has returned: page, labels, one upload, content, labels
C30_Witness ==
    /\ call.fn = "create" /\ call.pc = "returned"
    /\ Len(call.requests) = 5
    /\ call.requests[3].kind = "attachment"
    /\ \A k \in DOMAIN call.requests : call.requests[k].sent
----------------------------------------------------------------------------
(* markdown-to-confluence.py: main() *)

\* the process is started with or without an API URL
MainCalls ==
    { [fn |-> "main", pc |-> "start", api_url |-> u, exit |-> "none"]
        : u \in BOOLEAN }

\* two files of the scanned directory, 'a b.md' and 'a_b.md', whose names
\* differ in a character of INVALID_CHARS only
AlikeNames ==
    { <<"a", " ", "b", ".", "m", "d">>,
      <<"a", "_", "b", ".", "m", "d">> }

\* os.walk lists the two in either order
AlikeLists == { s \in [1..2 -> AlikeNames] : s[1] # s[2] }

\* the process starts: the files given may hold no document at all, or
\* files with names alike
InitMain ==
    /\ call \in MainCalls
    /\ discovered \in DiscoveredLists \cup {<<>>} \cup AlikeLists
    /\ articles = [i \in DOMAIN discovered |-> Discover(discovered[i])]
    /\ files = [p \in Range(discovered) |-> Unread]
    /\ aux = [i \in DOMAIN discovered |-> NoAux]
    /\ authors = [p \in Range(discovered) |-> <<>>]
    /\ pages \in InitialStores
    /\ stack = <<>>
    /\ idx = 1
    /\ status = "starting"
    /\ err = "none"
    /\ pass = 1
    /\ run = 1
    /\ failed = FALSE
    /\ prev = [p \in {} |-> NoneId]

\* parse_args, lines 136-138: no API URL, sys.exit(1)
MainNoApiUrl ==
    /\ call.fn = "main" /\ call.pc = "start"
    /\ ~call.api_url
    /\ call' = [call EXCEPT !.pc = "exited", !.exit = 1]
    /\ UNCHANGED orch

\* main, lines 385-387: nothing to upload is logged and main returns
MainNoArticles ==
    /\ call.fn = "main" /\ call.pc = "start"
    /\ call.api_url
    /\ discovered = <<>>
    /\ call' = [call EXCEPT !.pc = "exited", !.exit = 0]
    /\ UNCHANGED orch

\* main, lines 389-395: the orchestrator is built and sync() is called
MainSync ==
    /\ call.fn = "main" /\ call.pc = "start"
    /\ call.api_url
    /\ discovered # <<>>
    /\ call' = [call EXCEPT !.pc = "sync"]
    /\ status' = "running"
    /\ UNCHANGED <<articles, files, aux, pages, stack, idx, err, pass, run,
                   failed, discovered, authors, prev>>

\* main returns after sync(), or ends with the exception sync() raised
MainExit ==
    /\ call.fn = "main" /\ call.pc = "sync"
    /\ status \in {"done", "aborted"}
    /\ call' = [call EXCEPT !.pc = "exited",
                            !.exit = IF status = "done" THEN 0 ELSE 1]
    /\ UNCHANGED orch

NextMain ==
    \/ MainNoApiUrl
    \/ MainNoArticles
    \/ MainSync
    \/ MainExit
    \/ Step

SpecMain == InitMain /\ [][NextMain]_vars

----------------------------------------------------------------------------
\* C25: the process exits with a non-zero status when no document was
\* discovered and when the API URL is missing; otherwise one pass of sync()
\* has been made when it exits.
C25_ExitStatus ==
    (call.fn = "main" /\ call.pc = "exited") =>
        IF discovered = <<>> \/ ~call.api_url
        THEN call.exit # 0 /\ status = "starting"
        ELSE status \in {"done", "aborted"}

\* C31: a call of create or update that is given any of content, slug,
\* title, space (and post_id, for update) empty or not at all makes no
\* request, goes no further than raising MissingArgumentException, and the
\* exception names exactly the arguments that are missing.
C31_MissingArgumentsRaise ==
    (call.fn \in {"create", "update"} /\
     (call.slug = "" \/ call.empty # {})) =>
        /\ call.requests = <<>>
        /\ call.pc \in {"bind", "raised"}
        /\ call.pc = "raised" =>
              /\ call.error = "MissingArgumentException"
              /\ Range(call.missing) =
                    call.empty \cup (IF call.slug = "" THEN {"slug"} ELSE {})
              /\ Len(call.missing) = Cardinality(Range(call.missing))

\* C31 witness: update was called with attachments, without a post_id and
\* with an empty title, and has raised naming both.
C31_Witness ==
    /\ call.fn = "update" /\ call.pc = "raised"
    /\ call.attachments # <<>>
    /\ call.missing = <<"title", "post_id">>

\* the document's parent is a document of the working set that is SKIPPED
ParentSkipped(j) ==
    /\ Parent(articles[j]) # <<>>
    /\ \E i \in ParentCandidates(Parent(articles[j])) :
          articles[i].state = SKIPPED

OnStack(j) == \E k \in DOMAIN stack : stack[k].art = j

----------------------------------------------------------------------------
(* One call of sync() in which every call of parse and of the remote
   client returns, over documents with an acyclic hierarchy *)

\* the chain of parent paths of a path ends at the root
RECURSIVE Acyclic(_)
Acyclic(p) ==
    \/ p = <<>>
    \/ /\ Len(Dirname(p)) < Len(p)
       /\ Acyclic(Dirname(p))

\* the proper ancestor paths of a path
RECURSIVE AncestorPaths(_)
AncestorPaths(p) ==
    IF Dirname(p) = <<>> \/ Len(Dirname(p)) >= Len(p) THEN {}
    ELSE {Dirname(p)} \cup AncestorPaths(Dirname(p))

InitAcyclic ==
    /\ Init
    /\ \A i \in DOMAIN discovered : Acyclic(discovered[i])

\* the steps of a pass in which no call raises: the parse and the remote
\* calls return, and the interpreter's recursion limit is out of reach
NextReturning ==
    \/ SyncNext
    \/ SyncReturn
    \/ ParseReturns
    \/ DirectoryEnter
    \/ NothingToDo
    \/ PlaceDirect
    \/ PlaceRecurse
    \/ PlaceFromParent
    \/ PlacementFails
    \/ ExistsHits
    \/ ExistsMisses
    \/ CreateReturns
    \/ UpdateReturns

\* sync() is sequential code: while a step is possible, one is taken
SpecReturning ==
    InitAcyclic /\ [][NextReturning]_vars /\ WF_vars(NextReturning)

\* the documents _get_placement has appended to the working set
Synthesized == Len(articles) - Len(discovered)

\* number of components of a path
Depth(p) == 1 + Cardinality(AncestorPaths(p))

====
